---- MODULE Spec2Model ----
(***************************************************************************)
(* Model of Trinity.C/src/Network/Server/posix/TrinitySocketServer.cpp:    *)
(* the per-socket context registry (psco_map), the accept thread, the     *)
(* worker threads that run ProcessRecv / SendResponse /                   *)
(* CloseClientConnection, and the byte-level receive pipeline.            *)
(*                                                                         *)
(* Spec      : accept thread + worker pool + registry (interleavings).    *)
(* SpecAccept: Spec without registry lookups from other code.             *)
(* SpecShrink: one connection, whole messages, buffer lengths only.       *)
(* SpecClose : the accept thread and threads that call                    *)
(*             CloseClientConnection up to twice on a context.            *)
(* SpecRecv  : one connection, ProcessRecv / SendResponse at the level of *)
(*             single read() calls and heap allocations.                  *)
(* SpecLife  : StartSocketServer / ShutdownSocketServer and the accept     *)
(*             loop, with fairness of the accept thread and of shutdown.   *)
(* SpecServer: SpecAccept with accept errors and ShutdownSocketServer.     *)
(* SpecLock  : the three registry operations, statement by statement,      *)
(*             under psco_spinlock.                                        *)
(***************************************************************************)
EXTENDS Integers, Sequences, FiniteSets, TLC

(***************************************************************************)
(* Bounds of the server model.                                             *)
(***************************************************************************)
\* descriptor numbers the OS hands out to accepted connections: 0..MaxFd-1
MaxFd == 2
\* connections accepted over a run; connection n gets context n
MaxCtx == 2
\* size of the worker pool
NumWorkers == 2
\* calls of CloseClientConnection per context in SpecClose
MaxCloseCalls == 2

Fds == 0 .. (MaxFd - 1)
Ctxs == 1 .. MaxCtx
Workers == 1 .. NumWorkers

\* the null pointer: what psco_map[fd] value-initialises a missing entry to
NULL == 0

(***************************************************************************)
(* Constants of Network/ProtocolConstants.h, which the file includes       *)
(* (line 15).  The weights are AvgSlideWin_a / AvgSlideWin_den and         *)
(* AvgSlideWin_b / AvgSlideWin_den (they add up to 1); AvgSlideWin_r is    *)
(* the "half" of the comment on line 89.  RecvBufferSize is scaled down.   *)
(***************************************************************************)
RecvBufferSize == 2
AvgSlideWin_den == 2
AvgSlideWin_a == 1
AvgSlideWin_b == 1
AvgSlideWin_r == 2

\* longest body length of the length-level model (SpecShrink)
MaxLen == 9

(***************************************************************************)
(* Bounds of the byte-level model (SpecRecv).                              *)
(***************************************************************************)
\* longest body the peer sends
MaxBody == 5
\* messages the peer sends over a run
MaxMsgs == 2
\* calls of StartSocketServer over a run (SpecLife)
MaxStarts == 2
\* reads that return -1 during one call of ProcessRecv
MaxRetry == 2
\* heap blocks that exist at one time
MaxAlloc == 4

\* line 194: UInt32_Contants::MessagePrefixLength, sizeof(uint32_t)
MessagePrefixLength == 4

VARIABLES
    psco_map,     \* std::map<int, PerSocketContextObject*>: a function on its keys
    fd_table,     \* OS descriptor table: fd -> 0 (closed) or the connection that owns it
    ctx,          \* heap of PerSocketContextObject, by allocation
    registered,   \* readiness monitor: fd -> context registered for it, or NULL
    armed,        \* readiness monitor: descriptors armed for one read event
    acc_pc,       \* accept thread: position in SocketAcceptThreadProc
    acc_fd,       \* accept thread: connected_sock_fd
    acc_ctx,      \* accept thread: pContext
    pc,           \* worker -> position
    wctx,         \* worker -> pContext it was handed
    pctx,         \* one connection's PerSocketContextObject (SpecShrink, SpecRecv)
    rpc,          \* that connection's worker: position
    heap,         \* malloc heap: block -> state, capacity and contents
    loc,          \* locals of ProcessRecv: body_length (by bytes), bytes_left, p, buf
    sock,         \* bytes in the socket's receive queue
    wire,         \* bytes the peer has written that have not arrived yet
    conn,         \* "open", "eof" (peer shut down its side) or "error" (reset)
    g,            \* history: message framing of the stream, last read() result, faults
    psco_spinlock,\* SpecLock: the thread that holds the lock, or NoThread
    lpc,          \* SpecLock: thread -> position in its registry operation
    lop,          \* SpecLock: thread -> operation and arguments
    life,         \* server life cycle: caller's position, accept_sock, monitor
    settled,      \* SpecShrink: the peer sends only small bodies from now on
    lastOp        \* which branch the last operation on pctx took (history)

srvVars == <<psco_map, fd_table, ctx, registered, armed, acc_pc, acc_fd, acc_ctx,
             pc, wctx, life, psco_spinlock, lpc, lop>>
lockVars == <<psco_spinlock, lpc, lop>>
lenVars == <<pctx, rpc, settled, lastOp>>
recvVars == <<heap, loc, sock, wire, conn, g>>

(***************************************************************************)
(* Registry operations, lines 39-59.  Each runs between                    *)
(* psco_spinlock.lock() and unlock(), so it is one atomic map access.      *)
(***************************************************************************)
\* std::map::insert: no effect when the key is already present
AddPerSocketContextObject(map, fd, pContext) ==
    IF fd \in DOMAIN map
    THEN map
    ELSE [k \in (DOMAIN map) \cup {fd} |-> IF k = fd THEN pContext ELSE map[k]]

RemovePerSocketContextObject_NoErase(map, fd) == map

\* std::map::erase(key): no effect when the key is absent
RemovePerSocketContextObject(map, fd) ==
    [k \in (DOMAIN map) \ {fd} |-> map[k]]

\* std::map::operator[]: inserts a value-initialised (null) entry for a missing key
GetPerSocketContextObject(map, fd) ==
    IF fd \in DOMAIN map
    THEN [map |-> map, ret |-> map[fd]]
    ELSE [map |-> [k \in (DOMAIN map) \cup {fd} |-> IF k = fd THEN NULL ELSE map[k]],
          ret |-> NULL]

(***************************************************************************)
(* Context allocation and release, lines 61-79.  st is the allocation's    *)
(* state; closeCalls, fdCloses, bufFrees and ctxFrees count what was done  *)
(* to the context (history).                                               *)
(***************************************************************************)
NoCtx == [st |-> "none", fd |-> 0, closeCalls |-> 0, fdCloses |-> 0,
          bufFrees |-> 0, ctxFrees |-> 0]

AllocatePerSocketContextObject(fd) ==
    [st |-> "live", fd |-> fd, closeCalls |-> 0, fdCloses |-> 0,
     bufFrees |-> 0, ctxFrees |-> 0]

\* free(p->RecvBuffer); free(p);
FreePerSocketContextObject(p) ==
    [p EXCEPT !.st = "freed", !.bufFrees = @ + 1, !.ctxFrees = @ + 1]

\* pContext->fd as a thread reads it: the stored value while the context is
\* allocated, any value once the context has been freed (use after free)
ReadFd(c) == IF ctx[c].st = "live" THEN {ctx[c].fd} ELSE Fds

(***************************************************************************)
(* Initial state: StartSocketServer has returned, the accept thread is at  *)
(* the top of its loop and the workers wait for events.                    *)
(***************************************************************************)
\* threads that use the registry: the accept thread (0) and the workers
Threads == 0 .. NumWorkers
NoThread == 0 - 1
NoOp == [op |-> "none", fd |-> 0, pContext |-> NULL]

\* line 32: the lock is free; no thread is in a registry operation
LockInit ==
    /\ psco_spinlock = NoThread
    /\ lpc = [t \in Threads |-> "out"]
    /\ lop = [t \in Threads |-> NoOp]

\* the server once StartSocketServer has returned accept_sock (lines 166-168)
Listening ==
    [pc |-> "listening", lsock |-> "listening", monitor |-> "init", ret |-> 0,
     acc_err |-> FALSE, starts |-> 1]

SrvInit ==
    /\ life = Listening
    /\ LockInit
    /\ psco_map = <<>>
    /\ fd_table = [fd \in Fds |-> 0]
    /\ ctx = [c \in Ctxs |-> NoCtx]
    /\ registered = [fd \in Fds |-> NULL]
    /\ armed = {}
    /\ acc_pc = "accept"
    /\ acc_fd = 0
    /\ acc_ctx = NULL
    /\ pc = [w \in Workers |-> "idle"]
    /\ wctx = [w \in Workers |-> NULL]

(***************************************************************************)
(* SocketAcceptThreadProc, lines 99-114.                                   *)
(***************************************************************************)
\* the next connection's number: the first context not allocated yet
NextConn == CHOOSE c \in Ctxs : ctx[c].st = "none" /\ \A d \in Ctxs : d < c => ctx[d].st # "none"

\* line 103: accept4 returns a descriptor number that is not open
AcceptConnection ==
    /\ acc_pc = "accept"
    /\ life.lsock = "listening"
    /\ \E c \in Ctxs : ctx[c].st = "none"
    /\ \E fd \in Fds :
        /\ fd_table[fd] = 0
        /\ fd_table' = [fd_table EXCEPT ![fd] = NextConn]
        /\ acc_fd' = fd
    /\ acc_pc' = "alloc"
    /\ UNCHANGED <<psco_map, ctx, registered, armed, acc_ctx, pc, wctx>>

\* line 110
AcceptAllocate ==
    /\ acc_pc = "alloc"
    /\ acc_ctx' = NextConn
    /\ ctx' = [ctx EXCEPT ![NextConn] = AllocatePerSocketContextObject(acc_fd)]
    /\ acc_pc' = "add"
    /\ UNCHANGED <<psco_map, fd_table, registered, armed, acc_fd, pc, wctx>>

\* line 111
AcceptAdd ==
    /\ acc_pc = "add"
    /\ psco_map' = AddPerSocketContextObject(psco_map, ctx[acc_ctx].fd, acc_ctx)
    /\ acc_pc' = "enter"
    /\ UNCHANGED <<fd_table, ctx, registered, armed, acc_fd, acc_ctx, pc, wctx>>

\* line 112: EnterEventMonitor registers the descriptor for read events, armed.
\* Registration fails when the descriptor is not open (any more).
AcceptEnterEventMonitor ==
    /\ acc_pc = "enter"
    /\ \E fd \in ReadFd(acc_ctx) :
        IF fd_table[fd] # 0
        THEN /\ registered' = [registered EXCEPT ![fd] = acc_ctx]
             /\ armed' = armed \cup {fd}
        ELSE UNCHANGED <<registered, armed>>
    /\ acc_pc' = "accept"
    /\ UNCHANGED <<psco_map, fd_table, ctx, acc_fd, acc_ctx, pc, wctx>>

(***************************************************************************)
(* The readiness monitor hands a read event of an armed descriptor to one  *)
(* waiting worker, with the context registered for it, and disarms the     *)
(* descriptor.                                                             *)
(***************************************************************************)
AwaitRequest(w) ==
    /\ pc[w] = "idle"
    /\ \E fd \in armed :
        /\ registered[fd] # NULL
        /\ armed' = armed \ {fd}
        /\ wctx' = [wctx EXCEPT ![w] = registered[fd]]
    /\ pc' = [pc EXCEPT ![w] = "recv"]
    /\ UNCHANGED <<psco_map, fd_table, ctx, registered, acc_pc, acc_fd, acc_ctx>>

\* RearmFD(fd): arms the descriptor again if it is registered
RearmFD(fd) == IF registered[fd] # NULL THEN armed \cup {fd} ELSE armed

(***************************************************************************)
(* ProcessRecv, lines 188-227, by its outcome: it returns true with a      *)
(* message recorded (lines 224-226), and the worker goes on to             *)
(* SendResponse; or the body read fails and it calls                       *)
(* CloseClientConnection (line 218).                                       *)
(***************************************************************************)
ProcessRecvTrue(w) ==
    /\ pc[w] = "recv"
    /\ pc' = [pc EXCEPT ![w] = "send_rearm"]
    /\ UNCHANGED <<psco_map, fd_table, ctx, registered, armed, acc_pc, acc_fd, acc_ctx,
                   wctx>>

ProcessRecvFalse(w) ==
    /\ pc[w] = "recv"
    /\ pc' = [pc EXCEPT ![w] = "close_remove"]
    /\ ctx' = [ctx EXCEPT ![wctx[w]].closeCalls = @ + 1]
    /\ UNCHANGED <<psco_map, fd_table, registered, armed, acc_pc, acc_fd, acc_ctx,
                   wctx>>

(***************************************************************************)
(* SendResponse, lines 229-236: RearmFD, write, ResetContextObjects.       *)
(***************************************************************************)
\* line 232
SendResponseRearm(w) ==
    /\ pc[w] = "send_rearm"
    /\ \E fd \in ReadFd(wctx[w]) : armed' = RearmFD(fd)
    /\ pc' = [pc EXCEPT ![w] = "send_write"]
    /\ UNCHANGED <<psco_map, fd_table, ctx, registered, acc_pc, acc_fd, acc_ctx,
                   wctx>>

\* line 234
SendResponseWrite(w) ==
    /\ pc[w] = "send_write"
    /\ pc' = [pc EXCEPT ![w] = "send_reset"]
    /\ UNCHANGED <<psco_map, fd_table, ctx, registered, armed, acc_pc, acc_fd, acc_ctx,
                   wctx>>

\* line 235; SendResponse returns and the worker waits for the next event
SendResponseReset(w) ==
    /\ pc[w] = "send_reset"
    /\ pc' = [pc EXCEPT ![w] = "idle"]
    /\ UNCHANGED <<psco_map, fd_table, ctx, registered, armed, acc_pc, acc_fd, acc_ctx,
                   wctx>>

(***************************************************************************)
(* CloseClientConnection, lines 238-244, one step per statement.           *)
(***************************************************************************)
\* line 240
CloseRemove(w) ==
    /\ pc[w] = "close_remove"
    /\ \E fd \in ReadFd(wctx[w]) : psco_map' = RemovePerSocketContextObject(psco_map, fd)
    /\ pc' = [pc EXCEPT ![w] = "close_fd"]
    /\ UNCHANGED <<fd_table, ctx, registered, armed, acc_pc, acc_fd, acc_ctx, wctx>>

\* line 242: close(fd) closes whatever connection owns that number now and
\* takes it out of the readiness monitor; on a closed number it fails (EBADF)
CloseFd(w) ==
    /\ pc[w] = "close_fd"
    /\ \E fd \in ReadFd(wctx[w]) :
        /\ fd_table' = [fd_table EXCEPT ![fd] = 0]
        /\ registered' = [registered EXCEPT ![fd] = NULL]
        /\ armed' = armed \ {fd}
    /\ ctx' = [ctx EXCEPT ![wctx[w]].fdCloses = @ + 1]
    /\ pc' = [pc EXCEPT ![w] = "close_free"]
    /\ UNCHANGED <<psco_map, acc_pc, acc_fd, acc_ctx, wctx>>

\* line 243, and the return
CloseFree(w) ==
    /\ pc[w] = "close_free"
    /\ ctx' = [ctx EXCEPT ![wctx[w]] = FreePerSocketContextObject(@)]
    /\ pc' = [pc EXCEPT ![w] = "idle"]
    /\ UNCHANGED <<psco_map, fd_table, registered, armed, acc_pc, acc_fd, acc_ctx,
                   wctx>>

(***************************************************************************)
(* A lookup of any descriptor number, present or absent.                   *)
(***************************************************************************)
Lookup(fd) ==
    /\ psco_map' = GetPerSocketContextObject(psco_map, fd).map
    /\ UNCHANGED <<fd_table, ctx, registered, armed, acc_pc, acc_fd, acc_ctx, pc, wctx>>

\* SpecClose: a thread calls CloseClientConnection on a context the accept
\* thread has published, closed before or not
CallCloseClientConnection(w, c) ==
    /\ pc[w] = "idle"
    /\ ctx[c].st # "none"
    /\ ~(acc_ctx = c /\ acc_pc \in {"add", "enter"})
    /\ ctx[c].closeCalls < MaxCloseCalls
    /\ wctx' = [wctx EXCEPT ![w] = c]
    /\ pc' = [pc EXCEPT ![w] = "close_remove"]
    /\ ctx' = [ctx EXCEPT ![c].closeCalls = @ + 1]
    /\ UNCHANGED <<psco_map, fd_table, registered, armed, acc_pc, acc_fd, acc_ctx>>

AcceptThread == AcceptConnection \/ AcceptAllocate \/ AcceptAdd \/ AcceptEnterEventMonitor

CloseClientConnection(w) == CloseRemove(w) \/ CloseFd(w) \/ CloseFree(w)

SrvNext ==
    \/ AcceptThread
    \/ \E w \in Workers : AwaitRequest(w)
    \/ \E w \in Workers : ProcessRecvTrue(w)
    \/ \E w \in Workers : ProcessRecvFalse(w)
    \/ \E w \in Workers : SendResponseRearm(w)
    \/ \E w \in Workers : SendResponseWrite(w)
    \/ \E w \in Workers : SendResponseReset(w)
    \/ \E w \in Workers : CloseClientConnection(w)
    \/ \E fd \in Fds : Lookup(fd)

CloseNext ==
    \/ AcceptThread
    \/ \E w \in Workers, c \in Ctxs : CallCloseClientConnection(w, c)
    \/ \E w \in Workers : CloseClientConnection(w)

\* the accept loop and the workers alone, without lookups
AcceptNext ==
    \/ AcceptThread
    \/ \E w \in Workers : AwaitRequest(w)
    \/ \E w \in Workers : ProcessRecvTrue(w)
    \/ \E w \in Workers : ProcessRecvFalse(w)
    \/ \E w \in Workers : SendResponseRearm(w)
    \/ \E w \in Workers : SendResponseWrite(w)
    \/ \E w \in Workers : SendResponseReset(w)
    \/ \E w \in Workers : CloseClientConnection(w)

(***************************************************************************)
(* StartSocketServer (lines 116-168), the accept loop's error branch       *)
(* (lines 104-109) and ShutdownSocketServer (lines 170-178).               *)
(* life.lsock is the socket accept_sock names: "none" (accept_sock = -1),  *)
(* "bound", "listening", "shutdown" (after shutdown(SHUT_RD)) or "closed". *)
(***************************************************************************)
Stopped ==
    [pc |-> "stopped", lsock |-> "none", monitor |-> "uninit", ret |-> 0,
     acc_err |-> FALSE, starts |-> 0]

\* before the first StartSocketServer: no accept thread, nothing accepted
SrvInitStopped ==
    /\ life = Stopped
    /\ LockInit
    /\ psco_map = <<>>
    /\ fd_table = [fd \in Fds |-> 0]
    /\ ctx = [c \in Ctxs |-> NoCtx]
    /\ registered = [fd \in Fds |-> NULL]
    /\ armed = {}
    /\ acc_pc = "none"
    /\ acc_fd = 0
    /\ acc_ctx = NULL
    /\ pc = [w \in Workers |-> "idle"]
    /\ wctx = [w \in Workers |-> NULL]

\* the places where StartSocketServer returns
StartOutcomes ==
    {"getaddrinfo_fails", "bind_fails", "listen_fails", "monitor_fails", "started"}

\* lines 118-168: what the call leaves behind, by where it returns
StartResult(l, outcome) ==
    CASE outcome = "getaddrinfo_fails" ->      \* lines 119, 129-133
           [l EXCEPT !.lsock = "none", !.ret = 0 - 1]
      [] outcome = "bind_fails" ->             \* lines 135-148: every socket closed
           [l EXCEPT !.lsock = "closed", !.ret = 0 - 1]
      [] outcome = "listen_fails" ->           \* lines 152-156: return -1, no close
           [l EXCEPT !.lsock = "bound", !.ret = 0 - 1]
      [] outcome = "monitor_fails" ->          \* lines 160-164: close, return -1
           [l EXCEPT !.lsock = "closed", !.ret = 0 - 1]
      [] outcome = "started" ->                \* lines 166-168
           [l EXCEPT !.lsock = "listening", !.monitor = "init", !.ret = 0,
                     !.pc = "listening"]

StartSocketServer(outcome) ==
    /\ life.pc = "stopped"
    /\ life.starts < MaxStarts
    /\ life' = [StartResult(life, outcome) EXCEPT !.starts = @ + 1, !.acc_err = FALSE]
    /\ acc_pc' = IF outcome = "started" THEN "accept" ELSE acc_pc
    /\ UNCHANGED <<psco_map, fd_table, ctx, registered, armed, acc_fd, acc_ctx, pc, wctx>>

\* errno of a failed accept4: EINVAL once the listening socket has been shut
\* down, another error (ECONNABORTED, EMFILE, EINTR ...) while it listens
AcceptErrno(lsock) == IF lsock = "listening" THEN "other" ELSE "EINVAL"

BreaksLoop_Never(errno) == FALSE

\* line 107
BreaksLoop(errno) == errno = "EINVAL"

\* lines 103-108: accept4 returns -1; the loop ends or goes round again
AcceptError ==
    /\ acc_pc = "accept"
    /\ IF BreaksLoop(AcceptErrno(life.lsock))
       THEN /\ acc_pc' = "exited"
            /\ life' = life
       ELSE /\ acc_pc' = "accept"
            /\ life' = [life EXCEPT !.acc_err = TRUE]
    /\ UNCHANGED <<psco_map, fd_table, ctx, registered, armed, acc_fd, acc_ctx, pc, wctx>>

CloseExistingConnections_All(table) == [fd \in DOMAIN table |-> 0]

\* line 176: "TODO close existing connections": nothing is closed
CloseExistingConnections(table) == table

\* line 172
ShutdownShut ==
    /\ life.pc = "listening"
    /\ life' = [life EXCEPT !.pc = "sd_join", !.lsock = "shutdown"]
    /\ UNCHANGED <<psco_map, fd_table, ctx, registered, armed, acc_pc, acc_fd, acc_ctx,
                   pc, wctx>>

\* line 173: join returns once SocketAcceptThreadProc has returned
ShutdownJoin ==
    /\ life.pc = "sd_join"
    /\ acc_pc = "exited"
    /\ life' = [life EXCEPT !.pc = "sd_close"]
    /\ UNCHANGED <<psco_map, fd_table, ctx, registered, armed, acc_pc, acc_fd, acc_ctx,
                   pc, wctx>>

\* line 174
ShutdownClose ==
    /\ life.pc = "sd_close"
    /\ life' = [life EXCEPT !.pc = "sd_uninit", !.lsock = "closed"]
    /\ UNCHANGED <<psco_map, fd_table, ctx, registered, armed, acc_pc, acc_fd, acc_ctx,
                   pc, wctx>>

\* lines 175-177: the monitor goes, and its registrations with it
ShutdownUninit ==
    /\ life.pc = "sd_uninit"
    /\ life' = [life EXCEPT !.pc = "stopped", !.monitor = "uninit", !.ret = 0]
    /\ registered' = [fd \in Fds |-> NULL]
    /\ armed' = {}
    /\ fd_table' = CloseExistingConnections(fd_table)
    /\ UNCHANGED <<psco_map, ctx, acc_pc, acc_fd, acc_ctx, pc, wctx>>

\* lines 173-177: ShutdownSocketServer after its call of shutdown()
ShutdownRest ==
    /\ ShutdownJoin \/ ShutdownClose \/ ShutdownUninit
    /\ UNCHANGED <<lenVars, recvVars, lockVars>>

ShutdownSocketServer ==
    \/ ShutdownShut /\ UNCHANGED <<lenVars, recvVars, lockVars>>
    \/ ShutdownRest

\* SocketAcceptThreadProc with its error branch
AcceptLoop ==
    /\ (AcceptThread /\ UNCHANGED life) \/ AcceptError
    /\ UNCHANGED <<lenVars, recvVars, lockVars>>

LifeNext ==
    \/ \E outcome \in StartOutcomes :
          StartSocketServer(outcome) /\ UNCHANGED <<lenVars, recvVars, lockVars>>
    \/ AcceptLoop
    \/ ShutdownSocketServer

(***************************************************************************)
(* SpecLock: the registry operations statement by statement (lines 39-59): *)
(* psco_spinlock.lock(), the map access, psco_spinlock.unlock(); then the  *)
(* caller's next statement, which does I/O (EnterEventMonitor after the    *)
(* add on line 111, close() after the remove on line 240).                 *)
(***************************************************************************)
lockFrame ==
    <<fd_table, ctx, registered, armed, acc_pc, acc_fd, acc_ctx, pc, wctx, life,
      lenVars, recvVars>>

CanLock_Always(l) == TRUE

\* lines 41, 48, 55: TrinitySpinlock::lock() returns when the lock is free
CanLock(l) == l = NoThread

\* contexts the registry does not hold
Unregistered(map) == {c \in Ctxs : \A k \in DOMAIN map : map[k] # c}

\* line 110: the context the accept thread has just allocated is none of
\* those in the registry; the lowest such number stands for it
NewContext(map) == CHOOSE c \in Unregistered(map) : \A d \in Unregistered(map) : c <= d

\* a thread calls an operation: the accept thread adds (line 111), the
\* others remove (line 240) or look up
CallRegistry(t, op, fd, c) ==
    /\ lpc[t] = "out"
    /\ (op = "Add") <=> (t = 0)
    /\ op = "Add" => Unregistered(psco_map) # {} /\ c = NewContext(psco_map)
    /\ op # "Add" => c = NULL
    /\ lpc' = [lpc EXCEPT ![t] = "lock"]
    /\ lop' = [lop EXCEPT ![t] = [op |-> op, fd |-> fd,
                                  pContext |-> c]]
    /\ UNCHANGED <<psco_map, psco_spinlock, lockFrame>>

\* lines 41, 48, 55
Lock(t) ==
    /\ lpc[t] = "lock"
    /\ CanLock(psco_spinlock)
    /\ psco_spinlock' = t
    /\ lpc' = [lpc EXCEPT ![t] = "map"]
    /\ UNCHANGED <<psco_map, lop, lockFrame>>

\* lines 42, 49, 56
MapAccess(t) ==
    /\ lpc[t] = "map"
    /\ psco_map' =
         CASE lop[t].op = "Add" ->
                AddPerSocketContextObject(psco_map, lop[t].fd, lop[t].pContext)
           [] lop[t].op = "Remove" ->
                RemovePerSocketContextObject(psco_map, lop[t].fd)
           [] lop[t].op = "Get" ->
                GetPerSocketContextObject(psco_map, lop[t].fd).map
    /\ lpc' = [lpc EXCEPT ![t] = "unlock"]
    /\ UNCHANGED <<psco_spinlock, lop, lockFrame>>

\* lines 43, 50, 57, and the return
Unlock(t) ==
    /\ lpc[t] = "unlock"
    /\ psco_spinlock' = NoThread
    /\ lpc' = [lpc EXCEPT ![t] = "io"]
    /\ lop' = [lop EXCEPT ![t] = NoOp]
    /\ UNCHANGED <<psco_map, lockFrame>>

\* lines 112, 242: the caller's I/O after the operation has returned
CallerIO(t) ==
    /\ lpc[t] = "io"
    /\ lpc' = [lpc EXCEPT ![t] = "out"]
    /\ UNCHANGED <<psco_map, psco_spinlock, lop, lockFrame>>

LockNext ==
    \/ \E t \in Threads, op \in {"Add", "Remove", "Get"}, fd \in Fds,
          c \in Ctxs \cup {NULL} :
          CallRegistry(t, op, fd, c)
    \/ \E t \in Threads : Lock(t)
    \/ \E t \in Threads : MapAccess(t)
    \/ \E t \in Threads : Unlock(t)
    \/ \E t \in Threads : CallerIO(t)

(***************************************************************************)
(* One connection's context and the arithmetic of its buffer length.       *)
(***************************************************************************)

Max(a, b) == IF a >= b THEN a ELSE b
Min(a, b) == IF a <= b THEN a ELSE b

\* lines 63-70: the context as AllocatePerSocketContextObject leaves it, its
\* receive buffer being allocation buf.  Message and ReceivedMessageBodyBytes
\* are not initialised; they are written before they are read.
RecvContextInit(buf) ==
    [st |-> "live", RecvBuffer |-> buf, RecvBufferLen |-> RecvBufferSize,
     avg_RecvBufferLen |-> RecvBufferSize, Message |-> NULL,
     ReceivedMessageBodyBytes |-> 0]

GrowLen_NoGrow(len, body_length) == len

\* lines 204-208: the length after the growth step
GrowLen(len, body_length) == IF body_length > len THEN body_length ELSE len

\* line 86: (uint32_t)(avg * AvgSlideWin_a + bytes * AvgSlideWin_b)
AvgUpdate(avg, bytes) ==
    (avg * AvgSlideWin_a + bytes * AvgSlideWin_b) \div AvgSlideWin_den

AvgClamp_NoClamp(avg) == avg

\* line 88: std::max(avg, RecvBufferSize)
AvgClamp(avg) == Max(avg, RecvBufferSize)

ShrinkNeeded_Never(avg, len) == FALSE

\* line 90: avg < len / AvgSlideWin_r
ShrinkNeeded(avg, len) == avg * AvgSlideWin_r < len

\* lines 86-95: the lengths after ResetContextObjects
ResetLens(c) ==
    LET avg == AvgClamp(AvgUpdate(c.avg_RecvBufferLen, c.ReceivedMessageBodyBytes))
    IN  [c EXCEPT !.avg_RecvBufferLen = avg,
                  !.RecvBufferLen = IF ShrinkNeeded(avg, c.RecvBufferLen)
                                    THEN avg ELSE c.RecvBufferLen]

LenInit ==
    /\ pctx = RecvContextInit(1)
    /\ rpc = "idle"
    /\ settled = FALSE
    /\ lastOp = "alloc"

(***************************************************************************)
(* SpecShrink: the connection at the level of whole messages.  A message   *)
(* with body length L is received (ProcessRecv returns true, lines         *)
(* 203-226), then SendResponse resets the context (lines 229-236).  Only   *)
(* the lengths are followed here; SpecRecv follows the bytes and the       *)
(* allocations.                                                            *)
(***************************************************************************)
SmallLens == {L \in 0 .. MaxLen : L * AvgSlideWin_r < RecvBufferSize}

ShrinkReceive(L) ==
    /\ rpc = "idle"
    /\ settled => L \in SmallLens
    /\ pctx' = [pctx EXCEPT !.RecvBufferLen = GrowLen(@, L),
                            !.ReceivedMessageBodyBytes = L]
    /\ lastOp' = IF L > pctx.RecvBufferLen THEN "grow" ELSE "keep"
    /\ rpc' = "send"
    /\ UNCHANGED <<settled, srvVars, recvVars>>

ShrinkReset ==
    /\ rpc = "send"
    /\ pctx' = ResetLens(pctx)
    /\ lastOp' = IF ResetLens(pctx).RecvBufferLen # pctx.RecvBufferLen
                 THEN "shrink" ELSE "noshrink"
    /\ rpc' = "idle"
    /\ UNCHANGED <<settled, srvVars, recvVars>>

\* from here on the peer sends only bodies below RecvBufferSize / AvgSlideWin_r
SettleDown ==
    /\ ~settled
    /\ settled' = TRUE
    /\ UNCHANGED <<pctx, rpc, lastOp, srvVars, recvVars>>

ShrinkNext ==
    \/ \E L \in 0 .. MaxLen : ShrinkReceive(L)
    \/ ShrinkReset
    \/ SettleDown

(***************************************************************************)
(* SpecRecv: the connection at the level of single read() calls and heap   *)
(* blocks.  The peer writes length-prefixed messages, which arrive in      *)
(* segments; ProcessRecv (lines 188-227) runs one read() per step;         *)
(* SendResponse (lines 229-236) ends with ResetContextObjects.             *)
(*                                                                         *)
(* p and bytes_left are uint32_t.  They are kept by their two's-complement *)
(* reading: p = -1 stands for 0xFFFFFFFF, so that "+= -1" is "- 1" and     *)
(* "bytes_left > 0" is "bytes_left # 0".                                   *)
(***************************************************************************)
AllocIds == 1 .. MaxAlloc
Byte == 0 .. MaxBody

\* a byte that was never written
Uninit == 0 - 1
\* values an unwritten byte of body_length may be read as
Garbage == {0, 1}

Unused == [st |-> "unused", cap |-> 0, data |-> <<>>]

IsLive(h, a) == a \in AllocIds /\ h[a].st = "live"

\* free(a); the contents of a freed block are indeterminate
FreeBlock(h, a) == [h EXCEPT ![a] = [st |-> "freed", cap |-> 0, data |-> <<>>]]

\* the block malloc / realloc hands out next
FreshId(h) ==
    CHOOSE a \in AllocIds :
        /\ h[a].st = "unused"
        /\ \A b \in AllocIds : h[b].st = "unused" => a <= b

\* freed blocks that no pointer of the program refers to are forgotten
Collect(h, refs) ==
    [a \in AllocIds |-> IF h[a].st = "freed" /\ a \notin refs THEN Unused ELSE h[a]]

\* read(fd, base + p, n) storing bytes: the contents of base afterwards
Write(data, p, bytes) ==
    [i \in 1 .. Max(Len(data), p + Len(bytes)) |->
        IF i > p /\ i <= p + Len(bytes) THEN bytes[i - p]
        ELSE IF i <= Len(data) THEN data[i] ELSE Uninit]

Take(s, k) == SubSeq(s, 1, k)
Drop(s, k) == SubSeq(s, k + 1, Len(s))

\* the peer's encoding of a length: uint32_t, little endian
Prefix(L) ==
    <<L % 256, (L \div 256) % 256, (L \div 65536) % 256, (L \div 16777216) % 256>>

\* line 192: the value of body_length, given its four bytes
Val(f) == f[1] + 256 * f[2] + 65536 * f[3] + 16777216 * f[4]

\* the byte values body_length may hold: written bytes as written
Resolutions(blen) ==
    {f \in [1 .. MessagePrefixLength -> Byte] :
        \A i \in 1 .. MessagePrefixLength :
            IF blen[i] = Uninit THEN f[i] \in Garbage ELSE f[i] = blen[i]}

\* the bodies the peer sends: of each length, a rising and a falling one
Bodies(L) == {[i \in 1 .. L |-> i], [i \in 1 .. L |-> L + 1 - i]}

NoMsg == [len |-> 0 - 1, body |-> <<>>]

\* lines 191-195 and 203: the locals of ProcessRecv before they are assigned
NoLoc ==
    [blen |-> [i \in 1 .. MessagePrefixLength |-> Uninit],
     body_length |-> 0, bytes_left |-> 0, p |-> 0, buf |-> NULL]

\* history: the stream position after k more bytes were read.  sizes are the
\* lengths (prefix included) of the messages not yet wholly read, off the
\* bytes already read of the first of them.
RECURSIVE Advance(_, _)
Advance(sizes, off) ==
    IF sizes # <<>> /\ off >= Head(sizes)
    THEN Advance(Tail(sizes), off - Head(sizes))
    ELSE [sizes |-> sizes, off |-> off]

Consumed(k) ==
    LET a == Advance(g.sizes, g.off + k)
    IN  [g EXCEPT !.sizes = a.sizes, !.off = a.off, !.rd = "data"]

\* the monitor reports the descriptor readable (level: data, EOF or error)
Readable ==
    \/ sock # <<>>
    \/ conn = "error"
    \/ conn = "eof" /\ wire = <<>>

\* lines 198, 214: the result of read(fd, ., n) on the non-blocking socket
ReadResult(n) ==
    IF conn = "error" THEN [kind |-> "error", k |-> 0 - 1]
    ELSE IF sock # <<>> THEN [kind |-> "data", k |-> Min(n, Len(sock))]
    ELSE IF conn = "eof" /\ wire = <<>> THEN [kind |-> "eof", k |-> 0]
    ELSE [kind |-> "eagain", k |-> 0 - 1]

RecvInit ==
    /\ heap = [a \in AllocIds |->
                 IF a = 1 THEN [st |-> "live", cap |-> RecvBufferSize, data |-> <<>>]
                 ELSE Unused]
    /\ loc = NoLoc
    /\ sock = <<>>
    /\ wire = <<>>
    /\ conn = "open"
    /\ g = [nsent |-> 0, sizes |-> <<>>, off |-> 0, cur |-> NoMsg, retries |-> 0,
            rd |-> "none", replaced |-> FALSE, faults |-> {}]

Running == rpc \in {"idle", "prefix", "body", "dispatch", "send"}

\* the peer writes one message: prefix, then body.  It is a request-response
\* peer: it writes its next message once the last one has been answered.
PeerSend(L, body) ==
    /\ rpc = "idle"
    /\ conn = "open"
    /\ wire = <<>>
    /\ g.sizes = <<>>
    /\ g.nsent < MaxMsgs
    /\ wire' = Prefix(L) \o body
    /\ g' = [g EXCEPT !.nsent = @ + 1,
                      !.sizes = Append(@, MessagePrefixLength + L)]
    /\ UNCHANGED <<heap, loc, sock, conn, lenVars, srvVars>>

\* the next k bytes arrive in the receive queue
Arrive(k) ==
    /\ Running
    /\ conn # "error"
    /\ k <= Len(wire)
    /\ sock' = sock \o Take(wire, k)
    /\ wire' = Drop(wire, k)
    /\ UNCHANGED <<heap, loc, conn, g, lenVars, srvVars>>

\* the peer shuts down its side; what it wrote still arrives
PeerClose ==
    /\ Running
    /\ conn = "open"
    /\ conn' = "eof"
    /\ UNCHANGED <<heap, loc, sock, wire, g, lenVars, srvVars>>

\* the connection is reset: every read fails from now on (ECONNRESET)
ConnReset ==
    /\ Running
    /\ conn \in {"open", "eof"}
    /\ conn' = "error"
    /\ UNCHANGED <<heap, loc, sock, wire, g, lenVars, srvVars>>

\* lines 188-195: the worker enters ProcessRecv on a readiness event
StartProcessRecv ==
    /\ rpc = "idle"
    /\ Readable
    /\ loc' = [NoLoc EXCEPT !.bytes_left = MessagePrefixLength]
    /\ g' = [g EXCEPT
               !.cur = IF g.off = 0 /\ g.sizes # <<>> /\ Len(sock) >= Head(g.sizes)
                       THEN [len |-> Head(g.sizes) - MessagePrefixLength,
                             body |-> SubSeq(sock, MessagePrefixLength + 1,
                                             Head(g.sizes))]
                       ELSE NoMsg,
               !.retries = 0, !.rd = "none"]
    /\ rpc' = "prefix"
    /\ UNCHANGED <<heap, sock, wire, conn, pctx, settled, lastOp, srvVars>>

\* lines 196-201: one iteration of the length-prefix loop.  The result of
\* read() is added to p and subtracted from bytes_left whatever it is.
PrefixRead ==
    /\ rpc = "prefix"
    /\ loc.bytes_left # 0
    /\ LET r == ReadResult(loc.bytes_left) IN
       \/ /\ r.kind = "data"
          /\ loc.p >= 0
          /\ loc' = [loc EXCEPT !.blen = Write(@, loc.p, Take(sock, r.k)),
                                !.p = @ + r.k, !.bytes_left = @ - r.k]
          /\ sock' = Drop(sock, r.k)
          /\ g' = Consumed(r.k)
       \/ \* p has wrapped: the target lies 4 GiB above body_length; read()
          \* fails with EFAULT, or stores the bytes in whatever is mapped there
          /\ r.kind = "data"
          /\ loc.p < 0
          /\ \/ /\ g.retries < MaxRetry
                /\ loc' = [loc EXCEPT !.p = @ - 1, !.bytes_left = @ + 1]
                /\ g' = [g EXCEPT !.retries = @ + 1, !.rd = "error"]
                /\ sock' = sock
             \/ /\ loc' = [loc EXCEPT !.p = @ + r.k, !.bytes_left = @ - r.k]
                /\ sock' = Drop(sock, r.k)
                /\ g' = [Consumed(r.k) EXCEPT !.faults = @ \cup {"out_of_bounds"}]
       \/ /\ r.kind \in {"eagain", "error"}
          /\ g.retries < MaxRetry
          /\ loc' = [loc EXCEPT !.p = @ - 1, !.bytes_left = @ + 1]
          /\ g' = [g EXCEPT !.retries = @ + 1, !.rd = r.kind]
          /\ sock' = sock
       \/ /\ r.kind = "eof"
          /\ g.rd # "eof"
          /\ g' = [g EXCEPT !.rd = "eof"]
          /\ UNCHANGED <<loc, sock>>
    /\ UNCHANGED <<heap, wire, conn, rpc, pctx, settled, lastOp, srvVars>>

\* lines 203-211: buf is taken from RecvBuffer BEFORE the buffer is grown.
\* realloc either extends the block in place or moves it (the old block is
\* freed and buf keeps pointing at it).  realloc of a block that was already
\* freed is undefined: it aborts, or carries on with either outcome.
PrefixDone ==
    /\ rpc = "prefix"
    /\ loc.bytes_left = 0
    /\ \E f \in Resolutions(loc.blen), moved \in BOOLEAN, abort \in BOOLEAN :
         LET L == Val(f)
             rb == pctx.RecvBuffer
             grow == L > pctx.RecvBufferLen
             live == IsLive(heap, rb)
             new == FreshId(heap)
             h1 == IF ~grow THEN heap
                   ELSE IF moved
                   THEN [FreeBlock(heap, rb) EXCEPT
                           ![new] = [st |-> "live", cap |-> L, data |-> heap[rb].data]]
                   ELSE [heap EXCEPT ![rb].st = "live", ![rb].cap = L]
             nrb == IF grow /\ moved THEN new ELSE rb
         IN  /\ moved => grow
             /\ abort => (grow /\ ~live /\ ~moved)
             /\ IF abort
                THEN /\ rpc' = "aborted"
                     /\ g' = [g EXCEPT !.faults = @ \cup {"double_free"}]
                     /\ UNCHANGED <<heap, loc, pctx>>
                ELSE /\ heap' = Collect(h1, {nrb, rb, pctx.Message})
                     /\ pctx' = [pctx EXCEPT !.RecvBuffer = nrb,
                                             !.RecvBufferLen = GrowLen(@, L)]
                     /\ loc' = [blen |-> f, body_length |-> L, bytes_left |-> L,
                                p |-> 0, buf |-> rb]
                     /\ g' = [g EXCEPT !.rd = "none",
                                       !.faults = IF grow /\ ~live
                                                  THEN @ \cup {"double_free"} ELSE @]
                     /\ rpc' = "body"
    /\ UNCHANGED <<sock, wire, conn, settled, lastOp, srvVars>>

\* lines 238-244 called from line 218 (the registry and the descriptor are
\* followed in Spec): FreePerSocketContextObject frees RecvBuffer and the
\* context; ProcessRecv returns false.
CloseInRecv(kind) ==
    LET rb == pctx.RecvBuffer
        live == IsLive(heap, rb)
    IN  /\ heap' = Collect(IF live THEN FreeBlock(heap, rb) ELSE heap, {})
        /\ pctx' = [pctx EXCEPT !.st = "freed"]
        /\ loc' = NoLoc
        /\ g' = [g EXCEPT !.rd = kind,
                          !.faults = IF live THEN @ ELSE @ \cup {"double_free"}]
        /\ rpc' \in (IF live THEN {"closed"} ELSE {"closed", "aborted"})

\* lines 212-223: one iteration of the body loop.  0 and errors other than
\* EAGAIN close the connection; EAGAIN falls through to lines 221-222.
BodyRead ==
    /\ rpc = "body"
    /\ loc.bytes_left # 0
    /\ LET r == ReadResult(loc.bytes_left)
           b == loc.buf
           stepped == [loc EXCEPT !.p = @ + r.k, !.bytes_left = @ - r.k]
       IN
       \/ /\ r.kind \in {"eof", "error"}
          /\ CloseInRecv(r.kind)
          /\ sock' = sock
       \/ /\ r.kind = "eagain"
          /\ g.retries < MaxRetry
          /\ loc' = stepped
          /\ g' = [g EXCEPT !.retries = @ + 1, !.rd = "eagain"]
          /\ UNCHANGED <<heap, sock, pctx, rpc>>
       \/ /\ r.kind = "data"
          /\ loc.p >= 0
          /\ LET inb == IsLive(heap, b) /\ loc.p + r.k <= heap[b].cap IN
             /\ heap' = IF inb
                        THEN [heap EXCEPT ![b].data = Write(@, loc.p, Take(sock, r.k))]
                        ELSE heap
             /\ g' = [Consumed(r.k) EXCEPT
                        !.faults = IF inb THEN @
                                   ELSE IF IsLive(heap, b) THEN @ \cup {"out_of_bounds"}
                                   ELSE @ \cup {"use_after_free"}]
          /\ loc' = stepped
          /\ sock' = Drop(sock, r.k)
          /\ UNCHANGED <<pctx, rpc>>
       \/ \* p has wrapped: the target lies 4 GiB above buf
          /\ r.kind = "data"
          /\ loc.p < 0
          /\ \/ /\ CloseInRecv("error")
                /\ sock' = sock
             \/ /\ loc' = stepped
                /\ sock' = Drop(sock, r.k)
                /\ g' = [Consumed(r.k) EXCEPT !.faults = @ \cup {"out_of_bounds"}]
                /\ UNCHANGED <<heap, pctx, rpc>>
    /\ UNCHANGED <<wire, conn, settled, lastOp, srvVars>>

\* lines 224-226: ProcessRecv returns true
BodyDone ==
    /\ rpc = "body"
    /\ loc.bytes_left = 0
    /\ pctx' = [pctx EXCEPT !.Message = loc.buf,
                            !.ReceivedMessageBodyBytes = loc.body_length]
    /\ heap' = Collect(heap, {pctx.RecvBuffer, loc.buf})
    /\ loc' = NoLoc
    /\ g' = [g EXCEPT !.rd = "none", !.replaced = FALSE]
    /\ rpc' = "dispatch"
    /\ UNCHANGED <<sock, wire, conn, settled, lastOp, srvVars>>

\* the message handler (not in this file) answers in the message's own
\* buffer, or sets Message to a buffer it allocated for the response
Dispatch(inplace) ==
    /\ rpc = "dispatch"
    /\ IF inplace
       THEN UNCHANGED <<heap, pctx, g>>
       ELSE LET new == FreshId(heap) IN
            /\ heap' = Collect([heap EXCEPT ![new] = [st |-> "live", cap |-> 1,
                                                      data |-> <<>>]],
                               {pctx.RecvBuffer, new})
            /\ pctx' = [pctx EXCEPT !.Message = new]
            /\ g' = [g EXCEPT !.replaced = TRUE]
    /\ rpc' = "send"
    /\ UNCHANGED <<loc, sock, wire, conn, settled, lastOp, srvVars>>

\* lines 229-236 with ResetContextObjects (lines 81-96): free(Message), the
\* average, and the shrink, which frees RecvBuffer and allocates a new one.
\* A free of a block that is not live is undefined: it aborts or goes on.
SendResponse ==
    /\ rpc = "send"
    /\ \E abort \in BOOLEAN :
         LET m == pctx.Message
             mlive == IsLive(heap, m)
             h1 == IF mlive THEN FreeBlock(heap, m) ELSE heap
             c1 == ResetLens(pctx)
             shrink == ShrinkNeeded(c1.avg_RecvBufferLen, pctx.RecvBufferLen)
             rb == pctx.RecvBuffer
             rlive == IsLive(h1, rb)
             h2 == IF shrink THEN FreeBlock(h1, rb) ELSE h1
             new == FreshId(h2)
             h3 == IF shrink
                   THEN [h2 EXCEPT ![new] = [st |-> "live", cap |-> c1.RecvBufferLen,
                                             data |-> <<>>]]
                   ELSE h2
             nrb == IF shrink THEN new ELSE rb
             dfree == (m # NULL /\ ~mlive) \/ (shrink /\ ~rlive)
         IN  /\ abort => dfree
             /\ IF abort
                THEN /\ rpc' = "aborted"
                     /\ g' = [g EXCEPT !.faults = @ \cup {"double_free"}]
                     /\ UNCHANGED <<heap, pctx>>
                ELSE /\ heap' = Collect(h3, {nrb, m})
                     /\ pctx' = [c1 EXCEPT !.RecvBuffer = nrb]
                     /\ g' = [g EXCEPT !.cur = NoMsg,
                                       !.faults = IF dfree
                                                  THEN @ \cup {"double_free"} ELSE @]
                     /\ rpc' = "idle"
    /\ UNCHANGED <<loc, sock, wire, conn, settled, lastOp, srvVars>>

RecvNext ==
    \/ \E L \in 0 .. MaxBody : \E body \in Bodies(L) : PeerSend(L, body)
    \/ \E k \in 1 .. (MessagePrefixLength + MaxBody) : Arrive(k)
    \/ PeerClose
    \/ ConnReset
    \/ StartProcessRecv
    \/ PrefixRead
    \/ PrefixDone
    \/ BodyRead
    \/ BodyDone
    \/ \E inplace \in BOOLEAN : Dispatch(inplace)
    \/ SendResponse

vars == <<srvVars, lenVars, recvVars>>

Init == SrvInit /\ LenInit /\ RecvInit

Next == SrvNext /\ UNCHANGED <<life, lenVars, recvVars, lockVars>>

Spec == Init /\ [][Next]_vars

SpecAccept == Init /\ [][AcceptNext /\ UNCHANGED <<life, lenVars, recvVars, lockVars>>]_vars

SpecClose == Init /\ [][CloseNext /\ UNCHANGED <<life, lenVars, recvVars, lockVars>>]_vars

SpecRecv == Init /\ [][RecvNext]_vars

\* the running server: accept loop, workers and ShutdownSocketServer
ServerNext ==
    \/ AcceptNext /\ UNCHANGED <<life, lenVars, recvVars, lockVars>>
    \/ AcceptError /\ UNCHANGED <<lenVars, recvVars, lockVars>>
    \/ ShutdownSocketServer

SpecServer == Init /\ [][ServerNext]_vars

SpecLock == Init /\ [][LockNext]_vars

InitStopped == SrvInitStopped /\ LenInit /\ RecvInit

\* start, accept loop and shutdown; the threads are scheduled fairly
SpecLife ==
    /\ InitStopped
    /\ [][LifeNext]_vars
    /\ WF_vars(AcceptLoop)
    /\ WF_vars(ShutdownRest)

\* the peer keeps sending and the worker keeps answering
SpecShrink ==
    /\ Init
    /\ [][ShrinkNext]_vars
    /\ WF_vars(\E L \in 0 .. MaxLen : ShrinkReceive(L))
    /\ WF_vars(ShrinkReset)

(***************************************************************************)
(* Claims about the server (Spec, SpecAccept, SpecClose).                  *)
(***************************************************************************)
\* positions inside ProcessRecv, SendResponse (ResetContextObjects is its last
\* statement) and CloseClientConnection
OnContext == {"recv", "send_rearm", "send_write", "send_reset",
              "close_remove", "close_fd", "close_free"}

WorkersOn(c) == {w \in Workers : pc[w] \in OnContext /\ wctx[w] = c}

\* C1: in every reachable state at most one worker is executing ProcessRecv,
\* SendResponse, ResetContextObjects or CloseClientConnection on a given
\* context, the monitor delivering a descriptor's read event only while it is
\* armed, disarming it on delivery and arming it again on RearmFD.
C1_OneThreadPerContext == \A c \in Ctxs : Cardinality(WorkersOn(c)) <= 1

\* C2: every descriptor present in psco_map maps to a non-null context that
\* has been allocated and not yet freed.
C2_RegistryEntriesLive ==
    \A fd \in DOMAIN psco_map :
        /\ psco_map[fd] # NULL
        /\ ctx[psco_map[fd]].st = "live"

\* the part of C2 that the code keeps: an entry that is not null is a live context
RegistryNonNullEntriesLive ==
    \A fd \in DOMAIN psco_map :
        psco_map[fd] # NULL => ctx[psco_map[fd]].st = "live"

\* CloseClientConnection returns in the step that leaves close_free
CloseReturns(w) == pc[w] = "close_free" /\ pc'[w] = "idle"

\* C3 as claimed: at the moment CloseClientConnection returns, the closed
\* connection's descriptor is absent from the registry.
C3_DescriptorAbsentAtReturn ==
    [][\A w \in Workers :
          CloseReturns(w) => ctx[wctx[w]].fd \notin DOMAIN psco_map']_vars

\* C3 as amended: at the moment CloseClientConnection returns, no entry of the
\* registry refers to the closed connection's context (its descriptor number
\* may be a key again, for a connection accepted after the descriptor was
\* closed).
C3_ContextAbsentAtReturn ==
    [][\A w \in Workers :
          CloseReturns(w) =>
              \A fd \in DOMAIN psco_map' : psco_map'[fd] # wctx[w]]_vars

\* C3 witness: a connection has been closed (its context freed) and its
\* descriptor number is a key of the registry again, for a later connection.
C3_Witness ==
    \E c \in Ctxs :
        /\ ctx[c].st = "freed"
        /\ ctx[c].fd \in DOMAIN psco_map
        /\ psco_map[ctx[c].fd] \notin {c, NULL}

\* C4: calling CloseClientConnection twice on a context never frees the
\* receive buffer or the context more than once and never closes the
\* descriptor twice.
C4_SecondCloseNoOp ==
    \A c \in Ctxs :
        /\ ctx[c].bufFrees <= 1
        /\ ctx[c].ctxFrees <= 1
        /\ ctx[c].fdCloses <= 1

(***************************************************************************)
(* Claims about the buffer length (SpecShrink).                            *)
(***************************************************************************)
\* C9: in every reachable state of a live connection context, after any
\* sequence of allocate, receive (growth) and reset (shrink), RecvBufferLen
\* is at least RecvBufferSize.
C9_LenAtLeastMinimum ==
    pctx.st = "live" => pctx.RecvBufferLen >= RecvBufferSize

\* C9 witness: a reset has just shrunk a grown buffer down to the minimum.
C9_Witness == lastOp = "shrink" /\ pctx.RecvBufferLen = RecvBufferSize

\* C10 as claimed: once the connection sends only bodies smaller than
\* RecvBufferSize / AvgSlideWin_r, each followed by ResetContextObjects,
\* RecvBufferLen eventually equals RecvBufferSize and stays there.
C10_ConvergesToMinimum ==
    [](settled => <>[](pctx.RecvBufferLen = RecvBufferSize))

\* C10 as amended: once the connection sends only such bodies, RecvBufferLen
\* eventually stays between RecvBufferSize and
\* AvgSlideWin_r * RecvBufferSize (a buffer no larger than that is never
\* shrunk, so it need not reach RecvBufferSize itself).
C10_ConvergesBelowShrinkThreshold ==
    [](settled => <>[](/\ pctx.RecvBufferLen >= RecvBufferSize
                       /\ pctx.RecvBufferLen <= AvgSlideWin_r * RecvBufferSize))

\* C10 witness: the peer sends only small bodies, the average has come down to
\* the minimum, a reset has just run without shrinking, and the buffer is
\* still larger than RecvBufferSize.
C10_Witness ==
    /\ settled
    /\ lastOp = "noshrink"
    /\ pctx.avg_RecvBufferLen = RecvBufferSize
    /\ pctx.RecvBufferLen > RecvBufferSize
    /\ pctx.RecvBufferLen <= AvgSlideWin_r * RecvBufferSize

(***************************************************************************)
(* Claims about the receive pipeline (SpecRecv).                           *)
(***************************************************************************)
\* C5: round trip.  When a message (the prefix of L, then L body bytes) had
\* wholly arrived as ProcessRecv started and no read failed, ProcessRecv
\* returns true with ReceivedMessageBodyBytes = L and Message the start of the
\* context's current receive buffer, whose first L bytes are the body.
C5_RoundTrip ==
    (rpc = "dispatch" /\ g.cur # NoMsg /\ g.retries = 0) =>
        /\ pctx.ReceivedMessageBodyBytes = g.cur.len
        /\ pctx.Message = pctx.RecvBuffer
        /\ IsLive(heap, pctx.RecvBuffer)
        /\ Len(heap[pctx.RecvBuffer].data) >= g.cur.len
        /\ Take(heap[pctx.RecvBuffer].data, g.cur.len) = g.cur.body

\* C6: in every state of the connection, a Message that ProcessRecv has set
\* is the block held in RecvBuffer, and that block has not been freed.
C6_MessageInRecvBuffer ==
    (pctx.st = "live" /\ pctx.Message # NULL /\ ~g.replaced) =>
        /\ pctx.Message = pctx.RecvBuffer
        /\ IsLive(heap, pctx.Message)

\* C7: once a read() of ProcessRecv has returned 0 or failed with an error
\* other than EAGAIN, in the prefix loop or in the body loop, the receive is
\* over: CloseClientConnection has run and ProcessRecv has returned false.
C7_DisconnectEndsReceive ==
    g.rd \in {"eof", "error"} =>
        /\ rpc \in {"closed", "aborted"}
        /\ pctx.st = "freed"

\* C8: in both read loops, a read() that returns -1 with EAGAIN leaves p and
\* bytes_left as they were.
C8_WouldBlockKeepsCounters ==
    [][(g'.rd = "eagain" /\ g'.retries = g.retries + 1) =>
           (loc'.p = loc.p /\ loc'.bytes_left = loc.bytes_left)]_vars

(***************************************************************************)
(* Claims about the growth step, start-up and shutdown, the registry.      *)
(***************************************************************************)
\* C11: over one ProcessRecv, RecvBufferLen after the growth step is at least
\* body_length and at least its value before the step.
C11_GrowthMonotonic ==
    [][(rpc = "idle" /\ rpc' = "send") =>
           /\ pctx'.RecvBufferLen >= pctx'.ReceivedMessageBodyBytes
           /\ pctx'.RecvBufferLen >= pctx.RecvBufferLen]_vars

C11_Witness ==
    /\ rpc = "send"
    /\ lastOp = "grow"
    /\ pctx.RecvBufferLen = pctx.ReceivedMessageBodyBytes
    /\ pctx.RecvBufferLen > RecvBufferSize

\* C12: once ShutdownSocketServer has been called on the listening server,
\* the accept thread leaves its loop, the join completes, and the server is
\* stopped with the listening socket closed and the monitor uninitialised.
C12_ShutdownCompletes ==
    (life.pc = "sd_join") ~>
        (/\ life.pc = "stopped"
         /\ acc_pc = "exited"
         /\ life.lsock = "closed"
         /\ life.monitor = "uninit")

C12_Witness ==
    /\ life.pc = "stopped"
    /\ life.lsock = "closed"
    /\ acc_pc = "exited"
    /\ life.acc_err
    /\ \E c \in Ctxs : ctx[c].st = "live"

\* C13: when StartSocketServer has returned -1, the socket accept_sock names
\* is closed (or there is none), the monitor is not initialised and no accept
\* thread runs.
C13_StartFailureUnwinds ==
    (life.pc = "stopped" /\ life.ret = 0 - 1) =>
        /\ life.lsock \in {"none", "closed"}
        /\ life.monitor = "uninit"
        /\ acc_pc \in {"none", "exited"}

\* C14: when AddPerSocketContextObject is called with a descriptor that is a
\* key of the registry, the existing entry stays and the caller sees the
\* failure: it does not go on to EnterEventMonitor as after a successful add.
C14_DuplicateAddReported ==
    [][(acc_pc = "add" /\ acc_pc' # "add" /\ ctx[acc_ctx].fd \in DOMAIN psco_map) =>
           /\ psco_map' = psco_map
           /\ acc_pc' # "enter"]_vars

\* C20: with the accept loop and the workers alone, AddPerSocketContextObject
\* is never called with a descriptor that is a key of the registry, and the
\* registry maps the descriptor to the new context afterwards.
C20_AddNeverClashes ==
    [][(acc_pc = "add" /\ acc_pc' = "enter") =>
           /\ ctx[acc_ctx].fd \notin DOMAIN psco_map
           /\ ctx[acc_ctx].fd \in DOMAIN psco_map'
           /\ psco_map'[ctx[acc_ctx].fd] = acc_ctx]_vars

\* a descriptor number was reused while the worker that closed it is still
\* inside CloseClientConnection, and the new connection is in the registry
C20_Witness ==
    \E w \in Workers :
        /\ pc[w] = "close_free"
        /\ ctx[wctx[w]].st = "live"
        /\ ctx[wctx[w]].fd \in DOMAIN psco_map
        /\ psco_map[ctx[wctx[w]].fd] # wctx[w]
        /\ psco_map[ctx[wctx[w]].fd] # NULL

\* C15: GetPerSocketContextObject only reads: the registry has the same keys
\* and the same contexts after the call as before it, and what it returns is
\* the descriptor's context, or no context for an absent descriptor.
C15_GetIsPureRead ==
    [][\A fd \in Fds :
          Lookup(fd) =>
              /\ psco_map' = psco_map
              /\ GetPerSocketContextObject(psco_map, fd).ret =
                     (IF fd \in DOMAIN psco_map THEN psco_map[fd] ELSE NULL)]_vars

InRegistry(c) == \E fd \in DOMAIN psco_map : psco_map[fd] = c

OpenAndRegistered(c) ==
    /\ fd_table[ctx[c].fd] = c
    /\ registered[ctx[c].fd] = c

\* no thread is inside the accept loop's body, CloseClientConnection or
\* ShutdownSocketServer
Quiescent ==
    /\ acc_pc \in {"accept", "exited"}
    /\ \A w \in Workers : pc[w] \notin {"close_remove", "close_fd", "close_free"}
    /\ life.pc \in {"listening", "stopped"}

\* C16: a context is in the registry if and only if its descriptor is open
\* and registered with the readiness monitor (looked at whenever no thread is
\* in the middle of the accept loop's body, a close or a shutdown).
C16_RegistryIffOpenAndRegistered ==
    Quiescent =>
        \A c \in Ctxs : ctx[c].st = "live" => (InRegistry(c) <=> OpenAndRegistered(c))

InMapAccess(t) == lpc[t] \in {"map", "unlock"}

\* C17: at most one thread is between lock() and unlock() of a registry
\* operation, and a thread holds psco_spinlock exactly while it is there: not
\* before the operation, not after it has returned, not during the caller's
\* I/O.
C17_LockDiscipline ==
    /\ Cardinality({t \in Threads : InMapAccess(t)}) <= 1
    /\ \A t \in Threads : InMapAccess(t) <=> psco_spinlock = t

\* one thread is inside the map access while another waits for the lock to
\* work on the same descriptor and a third does its I/O
C17_Witness ==
    \E t1, t2, t3 \in Threads :
        /\ lpc[t1] = "map"
        /\ lpc[t2] = "lock"
        /\ lop[t1].fd = lop[t2].fd
        /\ lpc[t3] = "io"

\* C18: no step of ShutdownSocketServer changes the registry, a client
\* context or its buffer, or whether a client descriptor is open.
C18_ShutdownLeavesClients ==
    [][ShutdownSocketServer => UNCHANGED <<psco_map, ctx, fd_table, pctx, heap>>]_vars

\* shutdown has returned and a client connection is still open, registered
\* and allocated
C18_Witness ==
    /\ life.pc = "stopped"
    /\ life.monitor = "uninit"
    /\ \E fd \in DOMAIN psco_map :
        /\ psco_map[fd] # NULL
        /\ fd_table[fd] = psco_map[fd]
        /\ ctx[psco_map[fd]].st = "live"
        /\ ctx[psco_map[fd]].fd = fd
        /\ ctx[psco_map[fd]].bufFrees = 0

\* C19: when the connection is idle after a receive / send / reset cycle
\* that answered in place (SendResponse wrote the Message that ProcessRecv
\* recorded) and nothing undefined has happened, RecvBuffer is an allocated
\* block that has not been freed and whose size is RecvBufferLen.
C19_RecvBufferLive ==
    (rpc = "idle" /\ pctx.st = "live" /\ g.nsent <= 1 /\ ~g.replaced /\ g.faults = {}) =>
        /\ IsLive(heap, pctx.RecvBuffer)
        /\ heap[pctx.RecvBuffer].cap = pctx.RecvBufferLen
====
